---- MODULE Spec2Model ----
(***************************************************************************)
(* Gift-exchange service (src/main.py): groups, participants and the toss  *)
(* that assigns every participant of a group a recipient.                  *)
(*                                                                         *)
(* The store is the PostgreSQL database behind the SQLAlchemy session: two *)
(* tables, groups and participants.  Every request handler owns a session  *)
(* (get_db); what a handler writes becomes visible to the others at its    *)
(* db.commit(), as one transaction (autocommit=False, autoflush=False).    *)
(* Handlers that issue one query and one commit are one step; toss is      *)
(* split at the points where other requests can interleave: its query, each*)
(* iteration of its sampling loop, its commit and the serialisation of its *)
(* response.                                                               *)
(***************************************************************************)
EXTENDS Integers, Sequences, FiniteSets, TLC

\* ---- bounds of the model
MaxGroups == 2          \* group ids ever generated
MaxParticipants == 4    \* participant ids ever generated
TrialBudget == 2        \* rejected samples counted per run of the sampling loop
PairSize == 3           \* participants of each of the two groups tossed together

\* ---- program constants
MinParticipants == 3    \* toss: len(participants) < 3 -> 409
HTTP_OK == 200
HTTP_CREATED == 201
HTTP_NO_CONTENT == 204
HTTP_NOT_FOUND == 404
HTTP_CONFLICT == 409
HTTP_ERROR == 500       \* unhandled exception of a handler

NULL == 0               \* SQL NULL / Python None in an id column
GroupIds == 1..MaxGroups
ParticipantIds == 1..MaxParticipants
Tossers == {"t1", "t2"}  \* the toss requests that can be in flight together
Names == {"a"}          \* values of GroupDB.name; no handler reads a name

VARIABLES
    groups,          \* table groups: id -> [name]
    participants,    \* table participants: id -> [group_id, recipient_id]
    nextGroup,       \* uuid4 never repeats: ids are handed out in order
    nextParticipant,
    pc,              \* per toss request: where it is in the handler
    group_id,        \* per toss request: the path parameter
    loaded,          \* per toss request: the rows its session loaded (id -> recipient_id)
    participant_ids, \* per toss request: local participant_ids
    shuffled_ids,    \* per toss request: local shuffled_ids, once accepted
    trials,          \* per toss request: samples its running loop has rejected
    status,          \* per toss request: HTTP status of the response
    response,        \* per toss request: body (id -> recipient id)
    last,            \* the response of the last one-step handler, until the next request
    reported         \* per group: the body of the last toss response, until the next toss

vars == <<groups, participants, nextGroup, nextParticipant, pc, group_id, loaded,
          participant_ids, shuffled_ids, trials, status, response, last, reported>>
store == <<groups, participants, nextGroup, nextParticipant>>
tossLocals ==
    <<pc, group_id, loaded, participant_ids, shuffled_ids, trials, status, response>>

\* ---- helpers over the tables

\* A row created with a recipient already in it.
NewParticipantWithRecipient(g) == [group_id |-> g, recipient_id |-> nextParticipant]

\* ParticipantDB row as created by add_participant: recipient_id is nullable and unset.
NewParticipant(g) == [group_id |-> g, recipient_id |-> NULL]

\* The relationship's filter on group_id forgotten: every row.
MembersUnfiltered(g) == DOMAIN participants

\* group.participants: the rows whose group_id is g.
Members(g) == {p \in DOMAIN participants : participants[p].group_id = g}

\* The rows that name p as their recipient (foreign key participants.recipient_id).
ReferencedBy(p) == {q \in DOMAIN participants : participants[q].recipient_id = p}

\* The list a relationship load returns; the rows come back in primary-key order here.
RECURSIVE SortedSeq(_)
SortedSeq(S) ==
    IF S = {} THEN <<>>
    ELSE LET m == CHOOSE x \in S : \A y \in S : x <= y
         IN <<m>> \o SortedSeq(S \ {m})

Range(s) == {s[i] : i \in DOMAIN s}

\* random.choices in place of random.sample: positions drawn independently.
SamplesWithRepeats(ids) == [1..Len(ids) -> Range(ids)]

\* A shuffle that only rotates the list.
RECURSIVE Rotations(_, _)
Rotations(ids, k) ==
    IF k = 0 THEN {}
    ELSE {[i \in 1..Len(ids) |-> ids[((i + k - 1) % Len(ids)) + 1]]} \cup Rotations(ids, k - 1)

SamplesRotated(ids) == Rotations(ids, Len(ids))

\* random.sample(ids, len(ids)): the list in any order, every element once.
Samples(ids) ==
    {[i \in 1..Len(ids) |-> f[ids[i]]] : f \in Permutations(Range(ids))}

\* any(...) in place of all(...): one moved position is enough to accept.
SomeMoved(ids, shuffled) == \E i \in 1..Len(ids) : ids[i] # shuffled[i]

\* all(a != b for a, b in zip(participant_ids, shuffled_ids))
NoFixedPoint(ids, shuffled) == \A i \in 1..Len(ids) : ids[i] # shuffled[i]

\* The loop assigns shuffled_ids[0] to every participant.
AssignedFirstToAll(ids, shuffled) == [p \in Range(ids) |-> shuffled[1]]

\* zip(participants, shuffled_ids) as a mapping participant id -> recipient id.
Assigned(ids, shuffled) ==
    [p \in Range(ids) |-> shuffled[CHOOSE i \in 1..Len(ids) : ids[i] = p]]

\* serialize_participant over a list of rows: id -> recipient id (NULL: no recipient).
Serialize(S) == [p \in S |-> participants[p].recipient_id]

\* The response of a one-step handler: status code, for the two lookups the
\* recipients it reports (participant id -> recipient id), and the detail of an
\* HTTPException.
NoBody == <<>>
Response(code, body) == [status |-> code, body |-> body, detail |-> ""]
NoResponse == Response(NULL, NoBody)
NotFound(detail) == [status |-> HTTP_NOT_FOUND, body |-> NoBody, detail |-> detail]

\* f with key k set to v / with key k removed.
Put(f, k, v) == [x \in DOMAIN f \cup {k} |-> IF x = k THEN v ELSE f[x]]
Drop(f, k) == [x \in DOMAIN f \ {k} |-> f[x]]

Init ==
    /\ groups = <<>>
    /\ participants = <<>>
    /\ nextGroup = 1
    /\ nextParticipant = 1
    /\ pc = [t \in Tossers |-> "idle"]
    /\ group_id = [t \in Tossers |-> NULL]
    /\ loaded = [t \in Tossers |-> <<>>]
    /\ participant_ids = [t \in Tossers |-> <<>>]
    /\ shuffled_ids = [t \in Tossers |-> <<>>]
    /\ trials = [t \in Tossers |-> 0]
    /\ status = [t \in Tossers |-> NULL]
    /\ response = [t \in Tossers |-> <<>>]
    /\ last = NoResponse
    /\ reported = [g \in GroupIds |-> <<>>]

\* ---- one-step handlers

\* POST /group
create_group(name) ==
    /\ nextGroup <= MaxGroups
    /\ groups' = Put(groups, nextGroup, [name |-> name])
    /\ nextGroup' = nextGroup + 1
    /\ last' = Response(HTTP_CREATED, NoBody)
    /\ UNCHANGED <<participants, nextParticipant, tossLocals, reported>>

\* GET /group/{group_id}
get_group(g) ==
    /\ last' = IF g \notin DOMAIN groups
                THEN NotFound("Group not found")
                ELSE Response(HTTP_OK, Serialize(Members(g)))
    /\ UNCHANGED <<store, tossLocals, reported>>

\* PUT /group/{group_id}
update_group(g, name) ==
    /\ IF g \notin DOMAIN groups
       THEN /\ last' = NotFound("Group not found")
            /\ UNCHANGED groups
       ELSE /\ groups' = [groups EXCEPT ![g].name = name]
            /\ last' = Response(HTTP_OK, NoBody)
    /\ UNCHANGED <<participants, nextGroup, nextParticipant, tossLocals, reported>>

\* What db.delete(group) does to the participants table: the relationship
\* GroupDB.participants declares no delete cascade, so the unit of work sets the
\* foreign key of the group's rows to NULL and leaves the rows in the table.
DeleteGroupRows(g) ==
    [p \in DOMAIN participants |->
        IF participants[p].group_id = g
        THEN [participants[p] EXCEPT !.group_id = NULL]
        ELSE participants[p]]

\* DELETE /group/{group_id}
delete_group(g) ==
    /\ IF g \notin DOMAIN groups
       THEN /\ last' = NotFound("Group not found")
            /\ UNCHANGED <<groups, participants>>
       ELSE /\ participants' = DeleteGroupRows(g)
            /\ groups' = Drop(groups, g)
            /\ last' = Response(HTTP_NO_CONTENT, NoBody)
    /\ UNCHANGED <<nextGroup, nextParticipant, tossLocals, reported>>

\* POST /group/{group_id}/participant
add_participant(g) ==
    /\ IF g \notin DOMAIN groups
       THEN /\ last' = NotFound("Group not found")
            /\ UNCHANGED <<participants, nextParticipant>>
       ELSE /\ nextParticipant <= MaxParticipants
            /\ participants' = Put(participants, nextParticipant, NewParticipant(g))
            /\ nextParticipant' = nextParticipant + 1
            /\ last' = Response(HTTP_CREATED, NoBody)
    /\ UNCHANGED <<groups, nextGroup, tossLocals, reported>>

\* DELETE /group/{group_id}/participant/{participant_id}
\* A row that another row names as recipient cannot be deleted: the foreign key
\* participants.recipient_id rejects the DELETE, the commit raises and nothing changes.
delete_participant(g, p) ==
    /\ IF ~(p \in DOMAIN participants /\ participants[p].group_id = g)
       THEN /\ last' = NotFound("Participant not found")
            /\ UNCHANGED participants
       ELSE IF ReferencedBy(p) # {}
       THEN /\ last' = Response(HTTP_ERROR, NoBody)
            /\ UNCHANGED participants
       ELSE /\ participants' = Drop(participants, p)
            /\ last' = Response(HTTP_NO_CONTENT, NoBody)
    /\ UNCHANGED <<groups, nextGroup, nextParticipant, tossLocals, reported>>

\* The test "or not participant.recipient" forgotten: a participant of the group
\* without a recipient is answered 200.
get_recipient_unset(g, p) ==
    /\ last' = IF ~(p \in DOMAIN participants /\ participants[p].group_id = g)
                THEN NotFound("Recipient not found")
                ELSE Response(HTTP_OK, Serialize({p}))
    /\ UNCHANGED <<store, tossLocals, reported>>

\* The handler returns participant in place of participant.recipient.
get_recipient_self(g, p) ==
    /\ last' = IF \/ ~(p \in DOMAIN participants /\ participants[p].group_id = g)
                   \/ participants[p].recipient_id = NULL
                THEN NotFound("Recipient not found")
                ELSE Response(HTTP_OK, [q \in {p} |-> p])
    /\ UNCHANGED <<store, tossLocals, reported>>

\* GET /group/{group_id}/participant/{participant_id}/recipient
get_recipient(g, p) ==
    /\ last' = IF \/ ~(p \in DOMAIN participants /\ participants[p].group_id = g)
                   \/ participants[p].recipient_id = NULL
                THEN NotFound("Recipient not found")
                ELSE Response(HTTP_OK, Serialize({p}))
    /\ UNCHANGED <<store, tossLocals, reported>>

\* ---- toss, POST /group/{group_id}/toss, step by step

\* The size test lets a pair through (< 2 in place of < 3).
TooFewForPair(S) == Cardinality(S) < MinParticipants - 1

\* len(participants) < 3
TooFew(S) == Cardinality(S) < MinParticipants

\* The two checks in the other order: the size of group.participants is looked at
\* before the group itself, and a missing group counts as an empty one.
toss_begin_sizeFirst(t, g) ==
    /\ pc[t] = "idle"
    /\ group_id' = [group_id EXCEPT ![t] = g]
    /\ IF TooFew(Members(g))
       THEN /\ pc' = [pc EXCEPT ![t] = "done"]
            /\ status' = [status EXCEPT ![t] = HTTP_CONFLICT]
            /\ UNCHANGED <<loaded, participant_ids, reported>>
       ELSE IF g \notin DOMAIN groups
       THEN /\ pc' = [pc EXCEPT ![t] = "done"]
            /\ status' = [status EXCEPT ![t] = HTTP_NOT_FOUND]
            /\ UNCHANGED <<loaded, participant_ids, reported>>
       ELSE /\ pc' = [pc EXCEPT ![t] = "draw"]
            /\ loaded' = [loaded EXCEPT ![t] = Serialize(Members(g))]
            /\ participant_ids' = [participant_ids EXCEPT ![t] = SortedSeq(Members(g))]
            /\ reported' = [reported EXCEPT ![g] = <<>>]
            /\ UNCHANGED status
    /\ last' = NoResponse
    /\ UNCHANGED <<store, shuffled_ids, trials, response>>

\* The size of the group is not looked at before the sampling loop.
toss_begin_noSizeCheck(t, g) ==
    /\ pc[t] = "idle"
    /\ group_id' = [group_id EXCEPT ![t] = g]
    /\ IF g \notin DOMAIN groups
       THEN /\ pc' = [pc EXCEPT ![t] = "done"]
            /\ status' = [status EXCEPT ![t] = HTTP_NOT_FOUND]
            /\ UNCHANGED <<loaded, participant_ids, reported>>
       ELSE /\ pc' = [pc EXCEPT ![t] = "draw"]
            /\ loaded' = [loaded EXCEPT ![t] = Serialize(Members(g))]
            /\ participant_ids' = [participant_ids EXCEPT ![t] = SortedSeq(Members(g))]
            /\ reported' = [reported EXCEPT ![g] = <<>>]
            /\ UNCHANGED status
    /\ last' = NoResponse
    /\ UNCHANGED <<store, shuffled_ids, trials, response>>

\* Lines 180-192: the query, the two checks, participant_ids.
toss_begin(t, g) ==
    /\ pc[t] = "idle"
    /\ group_id' = [group_id EXCEPT ![t] = g]
    /\ IF g \notin DOMAIN groups
       THEN /\ pc' = [pc EXCEPT ![t] = "done"]
            /\ status' = [status EXCEPT ![t] = HTTP_NOT_FOUND]
            /\ UNCHANGED <<loaded, participant_ids, reported>>
       ELSE IF TooFew(Members(g))
       THEN /\ pc' = [pc EXCEPT ![t] = "done"]
            /\ status' = [status EXCEPT ![t] = HTTP_CONFLICT]
            /\ UNCHANGED <<loaded, participant_ids, reported>>
       ELSE /\ pc' = [pc EXCEPT ![t] = "draw"]
            /\ loaded' = [loaded EXCEPT ![t] = Serialize(Members(g))]
            /\ participant_ids' = [participant_ids EXCEPT ![t] = SortedSeq(Members(g))]
            /\ reported' = [reported EXCEPT ![g] = <<>>]
            /\ UNCHANGED status
    /\ last' = NoResponse
    /\ UNCHANGED <<store, shuffled_ids, trials, response>>

\* Lines 195-198: one iteration of the while True loop.  A rejected sample is
\* overwritten unread by the next iteration, so it is counted and dropped; the count
\* stops at TrialBudget + 1.
toss_draw(t) ==
    /\ pc[t] = "draw"
    /\ \E s \in Samples(participant_ids[t]) :
          IF NoFixedPoint(participant_ids[t], s)
          THEN /\ shuffled_ids' = [shuffled_ids EXCEPT ![t] = s]
               /\ pc' = [pc EXCEPT ![t] = "commit"]
               /\ trials' = [trials EXCEPT ![t] = 0]
          ELSE /\ trials' = [trials EXCEPT ![t] = IF @ <= TrialBudget THEN @ + 1 ELSE @]
               /\ UNCHANGED <<shuffled_ids, pc>>
    /\ UNCHANGED <<store, group_id, loaded, participant_ids, status, response, last,
                   reported>>

\* The rows the flush of db.commit() updates: the unit of work emits an UPDATE only
\* for a row whose recipient_id differs from the value the session loaded.
Dirty(ld, asg) == {p \in DOMAIN asg : asg[p] # ld[p]}

\* The flush succeeds when every row to update still exists (else the session
\* raises StaleDataError) and every new recipient still exists (else the foreign
\* key participants.recipient_id rejects the UPDATE).
CanFlush(ld, asg) ==
    \A p \in Dirty(ld, asg) : p \in DOMAIN participants /\ asg[p] \in DOMAIN participants

\* Every UPDATE committed on its own (autocommit): the rows change one at a time,
\* here the first dirty row alone.
FlushedFirstRow(ld, asg) ==
    [p \in DOMAIN participants |->
        IF p \in Dirty(ld, asg) /\ \A q \in Dirty(ld, asg) : p <= q
        THEN [participants[p] EXCEPT !.recipient_id = asg[p]]
        ELSE participants[p]]

\* The loop over zip(participants, shuffled_ids) stops one row early.
FlushedAllButLast(ld, asg) ==
    [p \in DOMAIN participants |->
        IF p \in Dirty(ld, asg) /\ \E q \in DOMAIN asg : p < q
        THEN [participants[p] EXCEPT !.recipient_id = asg[p]]
        ELSE participants[p]]

\* The flush writes every row of the table: a row the toss did not load gets no
\* recipient.
FlushedWholeTable(ld, asg) ==
    [p \in DOMAIN participants |->
        IF p \in DOMAIN asg
        THEN [participants[p] EXCEPT !.recipient_id = asg[p]]
        ELSE [participants[p] EXCEPT !.recipient_id = NULL]]

\* The participants table after the transaction of db.commit().
Flushed(ld, asg) ==
    [p \in DOMAIN participants |->
        IF p \in Dirty(ld, asg)
        THEN [participants[p] EXCEPT !.recipient_id = asg[p]]
        ELSE participants[p]]

\* Lines 201-204: the assignments to the loaded objects and db.commit().
toss_commit(t) ==
    /\ pc[t] = "commit"
    /\ LET asg == Assigned(participant_ids[t], shuffled_ids[t])
       IN IF CanFlush(loaded[t], asg)
          THEN /\ participants' = Flushed(loaded[t], asg)
               /\ pc' = [pc EXCEPT ![t] = "return"]
               /\ UNCHANGED status
          ELSE /\ pc' = [pc EXCEPT ![t] = "done"]
               /\ status' = [status EXCEPT ![t] = HTTP_ERROR]
               /\ UNCHANGED participants
    /\ UNCHANGED <<groups, nextGroup, nextParticipant, group_id, loaded, participant_ids,
                   shuffled_ids, trials, response, last, reported>>

\* Line 207: the commit expired the loaded objects, so serialize_participant reads
\* every row again; a row deleted meanwhile raises ObjectDeletedError.
toss_return(t) ==
    /\ pc[t] = "return"
    /\ pc' = [pc EXCEPT ![t] = "done"]
    /\ IF Range(participant_ids[t]) \subseteq DOMAIN participants
       THEN /\ status' = [status EXCEPT ![t] = HTTP_OK]
            /\ response' = [response EXCEPT ![t] = Serialize(Range(participant_ids[t]))]
            /\ reported' = [reported EXCEPT ![group_id[t]] =
                               Serialize(Range(participant_ids[t]))]
       ELSE /\ status' = [status EXCEPT ![t] = HTTP_ERROR]
            /\ UNCHANGED <<response, reported>>
    /\ UNCHANGED <<store, group_id, loaded, participant_ids, shuffled_ids, trials, last>>

\* get_db, lines 73-78: a request that ends early (exception, cancellation, timeout)
\* closes its session; what it has not committed is rolled back.
toss_interrupt(t) ==
    /\ pc[t] \in {"draw", "commit", "return"}
    /\ pc' = [pc EXCEPT ![t] = "done"]
    /\ status' = [status EXCEPT ![t] = HTTP_ERROR]
    /\ UNCHANGED <<store, group_id, loaded, participant_ids, shuffled_ids, trials, response,
                   last, reported>>

\* The response has left; the request's locals are gone.
toss_end(t) ==
    /\ pc[t] = "done"
    /\ pc' = [pc EXCEPT ![t] = "idle"]
    /\ group_id' = [group_id EXCEPT ![t] = NULL]
    /\ loaded' = [loaded EXCEPT ![t] = <<>>]
    /\ participant_ids' = [participant_ids EXCEPT ![t] = <<>>]
    /\ shuffled_ids' = [shuffled_ids EXCEPT ![t] = <<>>]
    /\ trials' = [trials EXCEPT ![t] = 0]
    /\ status' = [status EXCEPT ![t] = NULL]
    /\ response' = [response EXCEPT ![t] = <<>>]
    /\ UNCHANGED <<store, last, reported>>

\* ---- the service

\* No toss request is in flight.
Idle == \A t \in Tossers : pc[t] = "idle"

\* When requests do not overlap one request slot serves every toss.
Alone(t) == t = "t1"

\* Requests run one after the other.
Next ==
    \/ \E n \in Names : Idle /\ create_group(n)
    \/ \E g \in GroupIds, n \in Names : Idle /\ update_group(g, n)
    \/ \E g \in GroupIds : Idle /\ delete_group(g)
    \/ \E g \in GroupIds : Idle /\ add_participant(g)
    \/ \E g \in GroupIds, p \in ParticipantIds : Idle /\ delete_participant(g, p)
    \/ \E g \in GroupIds : Idle /\ get_group(g)
    \/ \E g \in GroupIds, p \in ParticipantIds : Idle /\ get_recipient(g, p)
    \/ \E t \in Tossers, g \in GroupIds : Alone(t) /\ toss_begin(t, g)
    \/ \E t \in Tossers : Alone(t) /\ toss_draw(t)
    \/ \E t \in Tossers : Alone(t) /\ toss_commit(t)
    \/ \E t \in Tossers : Alone(t) /\ toss_return(t)
    \/ \E t \in Tossers : Alone(t) /\ toss_interrupt(t)
    \/ \E t \in Tossers : Alone(t) /\ toss_end(t)

Spec == Init /\ [][Next]_vars

\* The two lookups run at any time, also while a toss is in flight.
ReadNext ==
    \/ \E n \in Names : Idle /\ create_group(n)
    \/ \E g \in GroupIds : Idle /\ add_participant(g)
    \/ \E g \in GroupIds : get_group(g)
    \/ \E g \in GroupIds, p \in ParticipantIds : get_recipient(g, p)
    \/ \E t \in Tossers, g \in GroupIds : Alone(t) /\ toss_begin(t, g)
    \/ \E t \in Tossers : Alone(t) /\ toss_draw(t)
    \/ \E t \in Tossers : Alone(t) /\ toss_commit(t)
    \/ \E t \in Tossers : Alone(t) /\ toss_return(t)
    \/ \E t \in Tossers : Alone(t) /\ toss_end(t)

ReadSpec == Init /\ [][ReadNext]_vars

\* Two toss requests overlap.  The tosses before the race run one after the other
\* in the first slot; the race itself is not followed beyond its two responses.
Quiet(t) == \A u \in Tossers \ {t} : pc[u] = "idle"

RaceNext ==
    \/ \E n \in Names : Idle /\ create_group(n)
    \/ \E g \in GroupIds : Idle /\ add_participant(g)
    \/ \E t \in Tossers, g \in GroupIds : toss_begin(t, g)
    \/ \E t \in Tossers : toss_draw(t)
    \/ \E t \in Tossers : toss_commit(t)
    \/ \E t \in Tossers : toss_return(t)
    \/ \E t \in Tossers : Alone(t) /\ Quiet(t) /\ toss_end(t)

RaceSpec == Init /\ [][RaceNext]_vars

\* Two groups of PairSize participants each, as create_group and add_participant
\* leave them, every group either without recipients or with the assignment of an
\* earlier toss; then two toss requests, each served once, in any interleaving.
PairGroup(g) == ((g - 1) * PairSize + 1)..(g * PairSize)

PairLinks(S) ==
    {[p \in S |-> NULL]} \cup
    {f \in [S -> S] : (\A p \in S : f[p] # p) /\ (\A p, q \in S : f[p] = f[q] => p = q)}

PairInit ==
    /\ \E n \in Names : groups = [g \in 1..2 |-> [name |-> n]]
    /\ \E l1 \in PairLinks(PairGroup(1)), l2 \in PairLinks(PairGroup(2)) :
          participants =
              [p \in 1..(2 * PairSize) |->
                  IF p \in PairGroup(1)
                  THEN [group_id |-> 1, recipient_id |-> l1[p]]
                  ELSE [group_id |-> 2, recipient_id |-> l2[p]]]
    /\ nextGroup = 3
    /\ nextParticipant = 2 * PairSize + 1
    /\ pc = [t \in Tossers |-> "idle"]
    /\ group_id = [t \in Tossers |-> NULL]
    /\ loaded = [t \in Tossers |-> <<>>]
    /\ participant_ids = [t \in Tossers |-> <<>>]
    /\ shuffled_ids = [t \in Tossers |-> <<>>]
    /\ trials = [t \in Tossers |-> 0]
    /\ status = [t \in Tossers |-> NULL]
    /\ response = [t \in Tossers |-> <<>>]
    /\ last = NoResponse
    /\ reported = [g \in GroupIds |-> <<>>]

PairNext ==
    \/ \E t \in Tossers, g \in GroupIds : toss_begin(t, g)
    \/ \E t \in Tossers : toss_draw(t)
    \/ \E t \in Tossers : toss_commit(t)
    \/ \E t \in Tossers : toss_return(t)

PairSpec == PairInit /\ [][PairNext]_vars

\* ---- properties

\* The recipient links stored for the set S of participants.
Links(S) == [p \in S |-> participants[p].recipient_id]

\* f maps S onto S, one to one.
IsBijectionOn(f, S) ==
    /\ DOMAIN f = S
    /\ \A p \in S : f[p] \in S
    /\ \A p, q \in S : f[p] = f[q] => p = q
    /\ \A r \in S : \E p \in S : f[p] = r

\* C1: a successful toss on a group of at least 3 stores and returns one and the
\* same assignment, a bijection of the group's current participants onto
\* themselves, whatever was stored before.
C1_TossStoresBijection ==
    \A t \in Tossers :
        (pc[t] = "done" /\ status[t] = HTTP_OK) =>
            LET S == Members(group_id[t])
            IN /\ Cardinality(S) >= 3
               /\ IsBijectionOn(response[t], S)
               /\ Links(S) = response[t]

\* A toss has succeeded on a group whose previous assignment was partial.
C1_Witness ==
    \E t \in Tossers :
        /\ pc[t] = "done" /\ status[t] = HTTP_OK
        /\ \E p, q \in DOMAIN loaded[t] : loaded[t][p] # NULL /\ loaded[t][q] = NULL

\* C2 (invariant I1): no participant is its own recipient.
C2_NoSelfRecipient ==
    \A p \in DOMAIN participants : participants[p].recipient_id # p

\* Recipients are stored, and participants were added and a group deleted since.
C2_Witness ==
    /\ \E p \in DOMAIN participants : participants[p].recipient_id # NULL
    /\ \E p \in DOMAIN participants : participants[p].group_id = NULL
    /\ \E p \in DOMAIN participants :
          participants[p].group_id # NULL /\ participants[p].recipient_id = NULL

\* The assignment a toss request computed, once its sample is accepted.
Output(t) == Assigned(participant_ids[t], shuffled_ids[t])

\* Both toss requests have answered 200 for the same group.
BothTossed ==
    /\ \A t \in Tossers : pc[t] = "done" /\ status[t] = HTTP_OK
    /\ \A t, u \in Tossers : group_id[t] = group_id[u]

\* C3: after two tosses on one group, however they interleave, the stored links
\* of the group are the complete output of one of the two.
C3_TossesSerialized ==
    BothTossed =>
        \E t \in Tossers : Links(Range(participant_ids[t])) = Output(t)

\* view shows, among the links a toss changes, some as the toss found them (old)
\* and some as the toss set them (new).
Mixed(view, old, new) ==
    \E p, q \in DOMAIN view \cap DOMAIN new :
        /\ new[p] # old[p] /\ view[p] = new[p]
        /\ new[q] # old[q] /\ view[q] = old[q]

\* The sample of toss request t is accepted and its response is not yet out.
Tossing(t) == pc[t] \in {"commit", "return"}

\* C4: a get_group or get_recipient that runs while a toss on the same group is in
\* flight reports the group's links either all as the toss found them or all as the
\* toss set them, never some of each.  (While a toss is in flight, last is the
\* response of a lookup that ran since the toss's query.)
C4_AtomicVisibility ==
    \A t \in Tossers :
        (/\ Tossing(t)
         /\ last.status = HTTP_OK
         /\ DOMAIN last.body \subseteq DOMAIN loaded[t]) =>
            /\ ~Mixed(last.body, loaded[t], Output(t))
            /\ \A p \in DOMAIN last.body :
                  last.body[p] \in {loaded[t][p], Output(t)[p]}

\* A get_group has run between the commit of a toss and its response, on a group
\* that had an assignment before, and reported the new one.
C4_Witness ==
    \E t \in Tossers :
        /\ pc[t] = "return"
        /\ last.status = HTTP_OK
        /\ last.body = Output(t)
        /\ \A p \in DOMAIN loaded[t] : loaded[t][p] # NULL
        /\ \E p, q \in DOMAIN loaded[t] : loaded[t][p] # Output(t)[p] /\ loaded[t][q] = Output(t)[q]

\* C5: the sampling loop of a toss stays within a trial budget: it never rejects
\* more samples than the budget, whatever the random source produces.
C5_BoundedSampling ==
    \A t \in Tossers : trials[t] <= TrialBudget

\* C6: a toss on an existing group of 0, 1 or 2 participants answers 409 and
\* changes no row of either table.
C6_MinimumSize ==
    [][\A t \in Tossers, g \in DOMAIN groups :
          (toss_begin(t, g) /\ Cardinality(Members(g)) < 3) =>
              /\ pc'[t] = "done"
              /\ status'[t] = HTTP_CONFLICT
              /\ participants' = participants
              /\ groups' = groups]_vars

\* A toss on a group of two has answered 409.
C6_Witness ==
    \E t \in Tossers :
        /\ pc[t] = "done" /\ status[t] = HTTP_CONFLICT
        /\ Cardinality(Members(group_id[t])) = 2

\* C7: delete_group removes the group's participants and every link from or to
\* them, and the group itself.
C7_DeleteGroupCascades ==
    [][\A g \in DOMAIN groups :
          delete_group(g) =>
              /\ g \notin DOMAIN groups'
              /\ \A p \in Members(g) :
                    /\ p \notin DOMAIN participants'
                    /\ \A q \in DOMAIN participants' : participants'[q].recipient_id # p]_vars

\* C8 (invariant I2): a recipient that is set is a stored participant with the
\* same group_id as the participant that holds it.
C8_RecipientInSameGroup ==
    \A p \in DOMAIN participants :
        LET r == participants[p].recipient_id
        IN r # NULL =>
              /\ r \in DOMAIN participants
              /\ participants[r].group_id = participants[p].group_id

\* One group holds an assignment while another group has a participant.
C8_Witness ==
    \E p, q \in DOMAIN participants :
        /\ participants[p].recipient_id # NULL
        /\ participants[p].group_id # NULL
        /\ participants[q].group_id # NULL
        /\ participants[q].group_id # participants[p].group_id

\* The derangements of S: the one-to-one maps of S onto S without a fixed point.
Derangements(S) ==
    {f \in [S -> S] : (\A p \in S : f[p] # p) /\ (\A p, q \in S : f[p] = f[q] => p = q)}

\* C9: the assignments a toss can produce for its participants are exactly the
\* derangements of their set: an accepted sample is one, and when the sampling
\* loop starts every one of them can be the sample it accepts.
C9_ExactlyDerangements ==
    \A t \in Tossers :
        LET S == Range(participant_ids[t])
        IN /\ pc[t] = "commit" => Output(t) \in Derangements(S)
           /\ (pc[t] = "draw" /\ trials[t] = 0) =>
                 \A d \in Derangements(S) :
                     ENABLED (toss_draw(t) /\ pc'[t] = "commit"
                              /\ Assigned(participant_ids'[t], shuffled_ids'[t]) = d)

\* A toss on a set that already held an assignment has answered with another one.
C9_Witness ==
    \E t \in Tossers :
        /\ pc[t] = "done" /\ status[t] = HTTP_OK
        /\ DOMAIN loaded[t] = DOMAIN response[t]
        /\ loaded[t] \in Derangements(DOMAIN loaded[t])
        /\ response[t] # loaded[t]

\* C10: the links of a toss's participants are all as the toss found them until its
\* commit and all as the toss set them after it, and a toss that ends before its
\* commit (interrupted, or its flush refused) changes no row.
C10_AllOrNothing ==
    /\ [](\A t \in Tossers :
            LET S == Range(participant_ids[t])
            IN S # {} =>
                 /\ pc[t] \in {"draw", "commit"} => Links(S) = loaded[t]
                 /\ pc[t] = "return" => Links(S) = Output(t)
                 /\ pc[t] = "done" =>
                       \/ Links(S) = loaded[t]
                       \/ Links(S) = Output(t))
    /\ [][\A t \in Tossers :
            (pc[t] \in {"draw", "commit"} /\ pc'[t] = "done") =>
                participants' = participants]_vars

\* A toss that had an accepted sample changing stored links was interrupted before
\* its commit.
C10_Witness ==
    \E t \in Tossers :
        /\ pc[t] = "done" /\ status[t] = HTTP_ERROR
        /\ Len(shuffled_ids[t]) = Len(participant_ids[t])
        /\ NoFixedPoint(participant_ids[t], shuffled_ids[t])
        /\ \E p \in DOMAIN loaded[t] : loaded[t][p] # NULL
        /\ Links(Range(participant_ids[t])) = loaded[t]
        /\ Output(t) # loaded[t]

\* C11: get_recipient(g, p) answers 404 whenever p is not a participant of g or p
\* has no recipient, as a participant has from add_participant until a toss.
C11_RecipientNotFound ==
    [](\A g \in GroupIds, p \in ParticipantIds :
          (\/ p \notin DOMAIN participants
           \/ participants[p].group_id # g
           \/ participants[p].recipient_id = NULL) =>
              ~ENABLED (/\ get_recipient(g, p)
                        /\ last' # NotFound("Recipient not found")))

\* get_recipient has answered 404 while a participant added after the toss of its
\* group has no recipient.
C11_Witness ==
    /\ last = NotFound("Recipient not found")
    /\ \E p, q \in DOMAIN participants :
          /\ participants[p].group_id = participants[q].group_id
          /\ participants[p].group_id # NULL
          /\ participants[p].recipient_id = NULL
          /\ participants[q].recipient_id # NULL

\* C12: every operation on a group, called with the id of a group that does not
\* exist, answers 404 and changes no row; toss answers 404 and not 409.
C12_MissingGroupNotFound ==
    [](\A g \in GroupIds \ DOMAIN groups :
          /\ ~ENABLED (/\ \/ get_group(g)
                          \/ \E n \in Names : update_group(g, n)
                          \/ delete_group(g)
                          \/ add_participant(g)
                          \/ \E p \in ParticipantIds : delete_participant(g, p)
                          \/ \E p \in ParticipantIds : get_recipient(g, p)
                       /\ ~(last'.status = HTTP_NOT_FOUND /\ store' = store))
          /\ \A t \in Tossers :
                ~ENABLED (/\ toss_begin(t, g)
                          /\ ~(/\ pc'[t] = "done"
                               /\ status'[t] = HTTP_NOT_FOUND
                               /\ store' = store)))

\* A toss on a group that was deleted, and whose rows are still stored, has
\* answered 404.
C12_Witness ==
    \E t \in Tossers :
        /\ pc[t] = "done" /\ status[t] = HTTP_NOT_FOUND
        /\ group_id[t] \notin DOMAIN groups
        /\ group_id[t] < nextGroup
        /\ \E p \in DOMAIN participants : participants[p].group_id = NULL

\* C13: a participant is created without a recipient, and the recipient of a stored
\* participant changes only in the commit of a toss that loaded that participant:
\* no other handler, and no request that fails, writes a recipient.
C13_RecipientSetOnlyByToss ==
    [][/\ \A p \in DOMAIN participants' \ DOMAIN participants :
             participants'[p].recipient_id = NULL
       /\ \A p \in DOMAIN participants' \cap DOMAIN participants :
             participants'[p].recipient_id # participants[p].recipient_id =>
                 \E t \in Tossers :
                     /\ toss_commit(t)
                     /\ pc'[t] = "return"
                     /\ p \in Range(participant_ids[t])]_vars

\* add_participant has answered 201 for a group that holds an assignment: the new
\* participant has no recipient, the others keep theirs.  (One group was ever
\* created, so the 201 is not create_group's.)
C13_Witness ==
    /\ last.status = HTTP_CREATED
    /\ nextGroup = 2
    /\ nextParticipant - 1 \in DOMAIN participants
    /\ participants[nextParticipant - 1].recipient_id = NULL
    /\ \E q \in DOMAIN participants :
          /\ participants[q].group_id = participants[nextParticipant - 1].group_id
          /\ participants[q].recipient_id # NULL

\* C14: a toss changes the recipient of its own group's participants and nothing
\* else, and after two toss requests on different groups, however they interleave,
\* every group holds the complete output of its own toss, as its response says.
C14_TossesIndependent ==
    /\ [][\A t \in Tossers :
            toss_commit(t) =>
                /\ groups' = groups
                /\ \A p \in DOMAIN participants :
                      /\ p \in DOMAIN participants'
                      /\ participants'[p].group_id = participants[p].group_id
                      /\ participants[p].group_id # group_id[t] =>
                            participants'[p] = participants[p]]_vars
    /\ [](\A t, u \in Tossers :
            (/\ pc[t] = "done" /\ status[t] = HTTP_OK
             /\ pc[u] = "done" /\ status[u] = HTTP_OK
             /\ group_id[t] # group_id[u]) =>
                /\ Links(Members(group_id[t])) = Output(t)
                /\ response[t] = Output(t))

\* Two toss requests on different groups, both holding an assignment before, have
\* both answered 200 and both changed the assignment of their group.
C14_Witness ==
    /\ \A t \in Tossers :
          /\ pc[t] = "done" /\ status[t] = HTTP_OK
          /\ \A p \in DOMAIN loaded[t] : loaded[t][p] # NULL
          /\ response[t] # loaded[t]
    /\ \E t, u \in Tossers : group_id[t] # group_id[u]

\* C15: delete_participant on a participant that other participants name as their
\* recipient removes the participant and clears those references, so that no
\* reference is left to a participant that is gone.
C15_DeleteClearsReferences ==
    [][\A g \in DOMAIN groups, p \in DOMAIN participants :
          (/\ participants[p].group_id = g
           /\ ReferencedBy(p) # {}
           /\ delete_participant(g, p)) =>
              /\ last'.status = HTTP_NO_CONTENT
              /\ p \notin DOMAIN participants'
              /\ \A q \in DOMAIN participants' : participants'[q].recipient_id # p]_vars

\* C16: while a group exists and no further toss has started on it, get_recipient
\* answers, for every participant the last toss response reported, the recipient
\* reported there, and get_group reports the same recipients.
C16_LookupsAgreeWithToss ==
    [][\A g \in DOMAIN groups :
          reported[g] # <<>> =>
              /\ get_group(g) =>
                    /\ last'.status = HTTP_OK
                    /\ \A p \in DOMAIN reported[g] :
                          /\ p \in DOMAIN last'.body
                          /\ last'.body[p] = reported[g][p]
              /\ \A p \in DOMAIN reported[g] :
                    get_recipient(g, p) =>
                        /\ last'.status = HTTP_OK
                        /\ last'.body = [q \in {p} |-> reported[g][p]]]_vars

\* get_recipient has answered what the toss response reported, after a participant
\* was added to the group since that toss.
C16_Witness ==
    \E g \in DOMAIN groups :
        /\ reported[g] # <<>>
        /\ Members(g) # DOMAIN reported[g]
        /\ last.status = HTTP_OK
        /\ \E p \in DOMAIN reported[g] : last.body = [q \in {p} |-> reported[g][p]]

\* C17: in toss both checks come before the first draw: a toss is in or past its
\* sampling loop only with at least 3 participants loaded and no error raised, and
\* a toss that answered 404 or 409 has drawn no sample and cannot draw one.
C17_ChecksBeforeDraw ==
    \A t \in Tossers :
        /\ pc[t] \in {"draw", "commit", "return"} =>
              /\ Len(participant_ids[t]) >= 3
              /\ status[t] = NULL
        /\ status[t] \in {HTTP_NOT_FOUND, HTTP_CONFLICT} =>
              /\ pc[t] = "done"
              /\ trials[t] = 0
              /\ shuffled_ids[t] = <<>>
              /\ ~ENABLED toss_draw(t)

\* A toss on an empty group has answered 409 without a draw, while the store holds
\* the assignment an earlier toss drew for another group.
C17_Witness ==
    \E t \in Tossers :
        /\ pc[t] = "done" /\ status[t] = HTTP_CONFLICT
        /\ group_id[t] \in DOMAIN groups
        /\ Members(group_id[t]) = {}
        /\ trials[t] = 0 /\ shuffled_ids[t] = <<>>
        /\ \E p \in DOMAIN participants : participants[p].recipient_id # NULL

\* C18: with requests run one after the other, no two participants have the same
\* recipient, also while the assignment of a group is partial.
C18_RecipientsInjective ==
    \A p, q \in DOMAIN participants :
        (/\ p # q
         /\ participants[p].recipient_id # NULL) =>
            participants[p].recipient_id # participants[q].recipient_id

\* delete_participant has removed a participant while an assignment is stored.
\* (Every group created is still there, so the 204 is not delete_group's.)
C18_Witness ==
    /\ last.status = HTTP_NO_CONTENT
    /\ DOMAIN groups = 1..(nextGroup - 1)
    /\ \E p \in DOMAIN participants : participants[p].recipient_id # NULL
    /\ \E p \in 1..(nextParticipant - 1) : p \notin DOMAIN participants

====
